---- MODULE Spec2Model ----
(***************************************************************************)
(* Garmin-Sleep-Check-Ins: session reconstruction, session matching,       *)
(* baseline statistics, deviation encoding and the scheduler / run_once    *)
(* send path, modelled from the Python sources under src/src.              *)
(*                                                                         *)
(* Values that are optional or loosely typed in the Python dicts are       *)
(* records [kind, v]: kind "none" is None, "num" a number, "bad" a value   *)
(* float() rejects.  Raw timestamps are records [kind, clock]: the kind    *)
(* is the textual representation, the clock the wall-clock seconds the     *)
(* text shows.                                                             *)
(***************************************************************************)
EXTENDS Integers, Sequences, FiniteSets, TLC

VARIABLES
    intraday_rows,   \* argument of build_stage_sessions
    sessions_out,    \* its result: [status, sessions]
    match_summary,   \* current_summary argument of match_session_to_summary
    match_sessions,  \* sessions argument of match_session_to_summary
    match_out,       \* its result: [status, session]
    summaries,       \* history argument of compute_metric_baselines
    exclude_summary, \* its exclude_summary argument: [given, time]
    min_count,       \* its min_count argument
    baselines_out,   \* its result: [status, out], out[metric] = <<mean, std>>
    card_metric,     \* the METRICS entry draw_metric_cards is drawing
    card_current,    \* current_row.get(metric)
    card_baseline,   \* the baselines mapping at metric: [present, mu, sd]
    card_out,        \* the card: [status, z, sigma, score, ramp]
    cfg,             \* scheduler command line and environment
    pc,              \* scheduler.main: "start", "loop", "sleeping", "exited"
    rc,              \* scheduler.main's return code, -1 while running
    stop_event,      \* scheduler.main: stop_event.is_set()
    target_spec,     \* scheduler.main: the resolved module:function
    runs,            \* target() calls the scheduler loop has made
    last_log,        \* the scheduler's last log line about a run
    latest,          \* the key of the newest SleepSummary in InfluxDB, 0 = none
    image_last_sent_key, \* /app/data/last_sleep_image_sent_key.json, 0 = None
    text_last_sent_key,  \* /app/data/last_sleep_sent_key.json, 0 = None
    image_ok_sends,  \* per sleep key, latest-mode photo sends that returned ok
    last_call,       \* the scheduler's last target call and what it did
    call_args,       \* one run_once call: its arguments and surroundings
    call_result,     \* what that call did
    window_summary,  \* compute_intraday_fetch_window: current_summary
    window_params,   \* its keyword arguments, in tenths of an hour
    window_out,      \* what it returned or raised
    color_in,        \* card_color_from_score_sigma: a score and two sigmas
    color_out,       \* the colour chosen for each sigma
    listener_env,    \* telegram_listener: BOT_TOKEN and CHAT_ID
    listener_pc,     \* where run_listener_forever is
    offset,          \* its getUpdates offset
    journal,         \* the SleepJournal entries written, in order
    confirmations,   \* how many confirmation messages were sent
    polled,          \* the batch in hand: the update handled last, counts before it
    sanitize_in,     \* sanitize_text: s and max_len
    sanitize_out,    \* what it returned, and what it returns for that
    stored,          \* sleep_data_export: the measurement's points, by time
    chunk_size,      \* CHUNK_SIZE
    last_time,       \* stream_points: last_time
    yielded,         \* the points stream_points has yielded, in order
    export_pc        \* where stream_points is

sessionVars == <<intraday_rows, sessions_out>>
matchVars == <<match_summary, match_sessions, match_out>>
baselineVars == <<summaries, exclude_summary, min_count, baselines_out>>
cardVars == <<card_metric, card_current, card_baseline, card_out>>

schedVars == <<cfg, pc, rc, stop_event, target_spec, runs, last_log>>
sendVars == <<latest, image_last_sent_key, text_last_sent_key, image_ok_sends, last_call>>

callVars == <<call_args, call_result>>

windowVars == <<window_summary, window_params, window_out>>

colorVars == <<color_in, color_out>>

listenerVars == <<listener_env, listener_pc, offset, journal, confirmations, polled>>

sanitizeVars == <<sanitize_in, sanitize_out>>

exportVars == <<stored, chunk_size, last_time, yielded, export_pc>>

toolVars == <<listenerVars, sanitizeVars, exportVars>>

vars ==
    <<sessionVars, matchVars, baselineVars, cardVars, schedVars, sendVars, callVars,
      windowVars, colorVars, toolVars>>

----------------------------------------------------------------------------
(* Optional / loosely typed values *)

NoneVal == [kind |-> "none", v |-> 0]
BadVal == [kind |-> "bad", v |-> 0]
Num(x) == [kind |-> "num", v |-> x]

NoTime == [kind |-> "none", clock |-> 0]
BadTime == [kind |-> "bad", clock |-> 0]
ZTime(c) == [kind |-> "Z", clock |-> c]
OffsetTime(c) == [kind |-> "+00:00", clock |-> c]
PlusOneTime(c) == [kind |-> "+01:00", clock |-> c]

----------------------------------------------------------------------------
(* time_utils.parse_time_utc *)

SecondsPerHour == 3600

\* Kinds of raw time that parse_time_utc accepts.
ParsableKinds == {"Z", "+00:00", "+01:00", "epoch"}

CanParseTime(t) == t.kind \in ParsableKinds

\* The UTC instant (seconds) of a parsable raw time: the 'Z' suffix is
\* rewritten to +00:00, an explicit offset is subtracted by astimezone(utc).
ParseTimeUtc(t) ==
    IF t.kind = "+01:00" THEN t.clock - SecondsPerHour ELSE t.clock

----------------------------------------------------------------------------
(* stages.build_stage_sessions *)

GapHours == 6
DefaultLastDuration == 240

\* float(d) for a duration field; 0 when float() raises and the caller passes.
FloatOrSkip(d) == IF d.kind = "num" THEN d.v ELSE 0

\* rows = [r for r in intraday_rows if stage is not None and time is not None]
Retained(r) == r.stage.kind # "none" /\ r.time.kind # "none"

FilterRows(rows) == SelectSeq(rows, Retained)

\* list.sort(key=parse_time_utc): stable, ascending.
RECURSIVE InsertByTime(_, _)
InsertByTime(sorted, r) ==
    IF sorted = <<>> THEN <<r>>
    ELSE IF ParseTimeUtc(Head(sorted).time) <= ParseTimeUtc(r.time)
         THEN <<Head(sorted)>> \o InsertByTime(Tail(sorted), r)
         ELSE <<r>> \o sorted

RECURSIVE SortRowsFrom(_, _)
SortRowsFrom(rows, acc) ==
    IF rows = <<>> THEN acc
    ELSE SortRowsFrom(Tail(rows), InsertByTime(acc, Head(rows)))

SortRows(rows) == SortRowsFrom(rows, <<>>)

\* line 54: prev_t is not None and (t - prev_t).total_seconds() > gap_s and cur
SplitHereAtOrAbove(prev_t, t, cur) ==
    prev_t.kind = "num" /\ t - prev_t.v >= GapHours * SecondsPerHour /\ cur # <<>>
SplitHere(prev_t, t, cur) ==
    prev_t.kind = "num" /\ t - prev_t.v > GapHours * SecondsPerHour /\ cur # <<>>

\* lines 59-60: if cur: sessions.append(cur)
FlushLastForgotten(sessions, cur) == sessions
FlushLast(sessions, cur) == IF cur # <<>> THEN Append(sessions, cur) ELSE sessions

\* lines 52-58: the grouping loop over the sorted rows.
RECURSIVE GroupRows(_, _, _, _)
GroupRows(rows, sessions, cur, prev_t) ==
    IF rows = <<>> THEN FlushLast(sessions, cur)
    ELSE LET r == Head(rows)
             t == ParseTimeUtc(r.time)
         IN  IF SplitHere(prev_t, t, cur)
             THEN GroupRows(Tail(rows), Append(sessions, cur), <<r>>, Num(t))
             ELSE GroupRows(Tail(rows), sessions, Append(cur, r), Num(t))

\* lines 66-74: total of the explicit durations.
RECURSIVE TotalStageSeconds(_)
TotalStageSeconds(sess) ==
    IF sess = <<>> THEN 0
    ELSE FloatOrSkip(Head(sess).dur) + TotalStageSeconds(Tail(sess))

\* lines 78-81: float(last.get(dur_key) or 240.0), 240.0 when float() raises.
LastDuration(d) ==
    IF d.kind = "num" /\ d.v # 0 THEN d.v ELSE DefaultLastDuration

\* lines 63-84: one StageSession per group.
MakeSession(sess) ==
    [points |-> sess,
     start_utc |-> ParseTimeUtc(sess[1].time),
     end_utc |-> ParseTimeUtc(sess[Len(sess)].time) + LastDuration(sess[Len(sess)].dur),
     total_stage_seconds |-> TotalStageSeconds(sess)]

BuildStageSessions(rows_in) ==
    LET rows == FilterRows(rows_in)
    IN  IF \E i \in 1..Len(rows) : ~CanParseTime(rows[i].time)
        THEN [status |-> "ValueError", sessions |-> <<>>]
        ELSE LET groups == GroupRows(SortRows(rows), <<>>, <<>>, NoneVal)
             IN  [status |-> "ok",
                  sessions |-> [k \in 1..Len(groups) |-> MakeSession(groups[k])]]

----------------------------------------------------------------------------
(* selectors.compute_intraday_fetch_window                                 *)
(* Hours are held in tenths of an hour, instants and durations in seconds. *)

TenthHourSeconds == 360

Max(a, b) == IF a >= b THEN a ELSE b
Min(a, b) == IF a <= b THEN a ELSE b

\* extra_before_hours=4.0, extra_after_hours=1.5, min_window_hours=14.0,
\* max_window_hours=20.0
DefaultWindowParams ==
    [extra_before_hours |-> 40, extra_after_hours |-> 15,
     min_window_hours |-> 140, max_window_hours |-> 200]

\* float(x or 0.0) for a value float() accepts: None and 0 give 0.0.
FloatOrZero(x) == IF x.kind = "num" THEN x.v ELSE 0

\* line 64: max(min_window_hours, min(max_window_hours, hours)), in seconds.
ClampWindowNoFloor(p, seconds) == Min(p.max_window_hours * TenthHourSeconds, seconds)
ClampWindow(p, seconds) ==
    Max(p.min_window_hours * TenthHourSeconds,
        Min(p.max_window_hours * TenthHourSeconds, seconds))

NoWindow == [status |-> "pending", start_utc |-> 0, end_utc |-> 0]

ComputeIntradayFetchWindow(current_summary, p) ==
    IF ~CanParseTime(current_summary.time)
    THEN [NoWindow EXCEPT !.status =
              IF current_summary.time.kind = "none" THEN "TypeError" ELSE "ValueError"]
    ELSE IF current_summary.sleepTimeSeconds.kind = "bad"
            \/ current_summary.awakeSleepSeconds.kind = "bad"
    THEN [NoWindow EXCEPT !.status = "ValueError"]
    ELSE LET end_utc == ParseTimeUtc(current_summary.time)
             sleep_s == FloatOrZero(current_summary.sleepTimeSeconds)
             awake_s == FloatOrZero(current_summary.awakeSleepSeconds)
             padded == sleep_s + awake_s
                         + (p.extra_before_hours + p.extra_after_hours) * TenthHourSeconds
         IN  [status |-> "ok",
              start_utc |-> end_utc - ClampWindow(p, padded),
              end_utc |-> end_utc + p.extra_after_hours * TenthHourSeconds]

----------------------------------------------------------------------------
(* selectors.match_session_to_summary *)

Abs(x) == IF x < 0 THEN -x ELSE x

\* key=lambda s: abs((s.end_utc - target).total_seconds())
MatchKey(s, target) == Abs(s.end_utc - target)

\* min(sessions, key=...): the first element whose key is minimal.
MinByKeyLast(sessions, target) ==
    LET i == CHOOSE i \in 1..Len(sessions) :
                 /\ \A j \in 1..Len(sessions) :
                        MatchKey(sessions[i], target) <= MatchKey(sessions[j], target)
                 /\ \A j \in (i + 1)..Len(sessions) :
                        MatchKey(sessions[i], target) < MatchKey(sessions[j], target)
    IN  sessions[i]
MinByKey(sessions, target) ==
    LET i == CHOOSE i \in 1..Len(sessions) :
                 /\ \A j \in 1..Len(sessions) :
                        MatchKey(sessions[i], target) <= MatchKey(sessions[j], target)
                 /\ \A j \in 1..(i - 1) :
                        MatchKey(sessions[i], target) < MatchKey(sessions[j], target)
    IN  sessions[i]

NoSession == [start_utc |-> 0, end_utc |-> 0]
NoMatchYet == [status |-> "pending", session |-> NoSession]

\* match_session_to_summary, lines 76-79.
MatchSessionToSummaryOrDefault(current_summary, sessions) ==
    IF sessions = <<>>
    THEN [status |-> "ok", session |-> NoSession]
    ELSE IF ~CanParseTime(current_summary.time)
    THEN [status |-> IF current_summary.time.kind = "none" THEN "TypeError" ELSE "ValueError",
          session |-> NoSession]
    ELSE [status |-> "ok",
          session |-> MinByKey(sessions, ParseTimeUtc(current_summary.time))]
MatchSessionToSummary(current_summary, sessions) ==
    IF sessions = <<>>
    THEN [status |-> "ValueError", session |-> NoSession]
    ELSE IF ~CanParseTime(current_summary.time)
    THEN [status |-> IF current_summary.time.kind = "none" THEN "TypeError" ELSE "ValueError",
          session |-> NoSession]
    ELSE [status |-> "ok",
          session |-> MinByKey(sessions, ParseTimeUtc(current_summary.time))]

----------------------------------------------------------------------------
(* baselines._mean_std and baselines.compute_metric_baselines              *)
(* Floats are fixed-point: a metric value x is the integer x, a mean or a  *)
(* standard deviation is held in hundredths.                               *)

Scale == 100

RECURSIVE SumSeq(_)
SumSeq(xs) == IF xs = <<>> THEN 0 ELSE Head(xs) + SumSeq(Tail(xs))

RECURSIVE SumSquares(_)
SumSquares(xs) == IF xs = <<>> THEN 0 ELSE Head(xs) * Head(xs) + SumSquares(Tail(xs))

\* floor(sqrt(n)) by bisection between lo and hi.
RECURSIVE SqrtBetween(_, _, _)
SqrtBetween(n, lo, hi) ==
    IF lo >= hi THEN lo
    ELSE LET mid == (lo + hi + 1) \div 2
         IN  IF mid * mid <= n THEN SqrtBetween(n, mid, hi)
             ELSE SqrtBetween(n, lo, mid - 1)

SqrtFloor(n) == SqrtBetween(n, 0, IF n < 40000 THEN n ELSE 40000)

\* _mean_std: population mean and standard deviation, in hundredths.
\* sum((v - mu)^2) / n = (n * sum(v^2) - sum(v)^2) / n^2.
MeanStdSample(values) ==
    IF values = <<>> THEN <<0, 0>>
    ELSE LET n == Len(values)
             total == SumSeq(values)
             spread == n * SumSquares(values) - total * total
         IN  <<(total * Scale) \div n,
               IF n = 1 THEN 0
               ELSE SqrtFloor((spread * Scale * Scale) \div (n * (n - 1)))>>
MeanStd(values) ==
    IF values = <<>> THEN <<0, 0>>
    ELSE LET n == Len(values)
             total == SumSeq(values)
             spread == n * SumSquares(values) - total * total
         IN  <<(total * Scale) \div n,
               SqrtFloor((spread * Scale * Scale) \div (n * n))>>

\* line 54: exclude_time is not None and s.get("time") == exclude_time
\* (the raw 'time' values are compared, as Python compares two strings).
IsExcluded(s, exclude) ==
    exclude.given /\ exclude.time.kind # "none" /\ s.time = exclude.time

\* lines 53-62: the numeric values of one metric over the kept records.
RECURSIVE CollectValuesZeroFill(_, _, _)
CollectValuesZeroFill(records, metric, exclude) ==
    IF records = <<>> THEN <<>>
    ELSE LET s == Head(records)
             rest == CollectValuesZeroFill(Tail(records), metric, exclude)
         IN  IF IsExcluded(s, exclude) THEN rest
             ELSE IF s[metric].kind = "num" THEN <<s[metric].v>> \o rest
             ELSE <<0>> \o rest
RECURSIVE CollectValues(_, _, _)
CollectValues(records, metric, exclude) ==
    IF records = <<>> THEN <<>>
    ELSE LET s == Head(records)
             rest == CollectValues(Tail(records), metric, exclude)
         IN  IF IsExcluded(s, exclude) THEN rest
             ELSE IF s[metric].kind = "num" THEN <<s[metric].v>> \o rest
             ELSE rest

\* line 64: len(vals) < min_count
TooFewAtOrBelow(n, needed) == n <= needed
TooFew(n, needed) == n < needed

\* lines 69-70: a standard deviation below 1e-12 becomes 0.0.
SnapStd(sd) == IF sd <= 0 THEN 0 ELSE sd

MetricBaseline(records, metric, needed, exclude) ==
    LET vals == CollectValues(records, metric, exclude)
    IN  IF TooFew(Len(vals), needed) THEN <<0, 0>>
        ELSE <<MeanStd(vals)[1], SnapStd(MeanStd(vals)[2])>>

ComputeMetricBaselines(records, metrics, needed, exclude) ==
    [m \in metrics |-> MetricBaseline(records, m, needed, exclude)]

----------------------------------------------------------------------------
(* image_summary.draw_metric_cards and card_color_from_score_sigma         *)
(* A z-score, sigma and score are held in thousandths.                     *)

ZScale == 1000

\* METRICS: (metric, higher_is_better)
HigherIsBetter ==
    [avgSleepStress |-> FALSE, awakeCount |-> FALSE, awakeSleepSeconds |-> FALSE,
     deepSleepSeconds |-> TRUE, remSleepSeconds |-> TRUE, restingHeartRate |-> FALSE,
     restlessMomentsCount |-> FALSE, sleepScore |-> TRUE, sleepTimeSeconds |-> TRUE]

\* lines 323-327: float(current_raw), NaN when it is None or float() raises.
ToFloatOrZero(raw) ==
    [nan |-> FALSE, v |-> IF raw.kind = "num" THEN raw.v * Scale ELSE 0]
ToFloatOrNaN(raw) ==
    IF raw.kind = "num" THEN [nan |-> FALSE, v |-> raw.v * Scale]
    ELSE [nan |-> TRUE, v |-> 0]

\* line 329: mu, sd = baselines.get(metric, (0.0, 0.0))
BaselineOrDefault(entry) ==
    IF entry.present THEN <<entry.mu, entry.sd>> ELSE <<0, 0>>

\* Float division, truncated to a whole number of thousandths.
SignedQuotient(num, den) ==
    IF num >= 0 THEN num \div den ELSE -((-num) \div den)

\* lines 331-333: z = 0.0; if sd > 1e-12 and current_v == current_v: z = ...
ZScoreUncentred(current_v, mu, sd) ==
    IF sd > 0 /\ ~current_v.nan
    THEN SignedQuotient(current_v.v * ZScale, sd)
    ELSE 0
ZScoreReversed(current_v, mu, sd) ==
    IF sd > 0 /\ ~current_v.nan
    THEN SignedQuotient((mu - current_v.v) * ZScale, sd)
    ELSE 0
ZScore(current_v, mu, sd) ==
    IF sd > 0 /\ ~current_v.nan
    THEN SignedQuotient((current_v.v - mu) * ZScale, sd)
    ELSE 0

\* line 144: ramp = POS_SIGMA_HEXES if score >= 0 else NEG_SIGMA_HEXES
RampSide(score) == IF score >= 0 THEN "POS" ELSE "NEG"

\* SIGMA_CAP = 2.5, in thousandths; len(ramp) of both ramps.
SigmaCap == 2500
RampLength == 6

\* Fractions of the cap, t and alpha are held in ten-thousandths.
Unit == 10000

\* line 143: sigma = max(0.0, min(float(sigma), cap))
ClampSigmaNoCap(sigma) == Max(0, sigma)
ClampSigma(sigma) == Max(0, Min(sigma, SigmaCap))

\* x ** GAMMA with GAMMA = 1.6 = 8/5, for x in [0, 1]: the eighth power of
\* the fifth root.
MulUnit(a, b) == (a * b) \div Unit

FifthPower(r) == MulUnit(MulUnit(MulUnit(MulUnit(r, r), r), r), r)

RECURSIVE FifthRootBetween(_, _, _)
FifthRootBetween(x, lo, hi) ==
    IF lo >= hi THEN lo
    ELSE LET mid == (lo + hi + 1) \div 2
         IN  IF FifthPower(mid) <= x THEN FifthRootBetween(x, mid, hi)
             ELSE FifthRootBetween(x, lo, mid - 1)

FifthRoot(x) == FifthRootBetween(x, 0, Unit)

EighthPower(r) ==
    LET r2 == MulUnit(r, r)
        r4 == MulUnit(r2, r2)
    IN  MulUnit(r4, r4)

PowLinear(x) == x
PowGamma(x) == EighthPower(FifthRoot(x))

\* int(round(v)) for v >= 0 in ten-thousandths.
RoundUnit(v) == (v + Unit \div 2) \div Unit

\* lines 143-153: the ramp side, the ramp index and alpha of a card.
CardColorFromScoreSigma(score, sigma_in) ==
    LET sigma == ClampSigma(sigma_in)
        frac == (sigma * Unit) \div SigmaCap
        t == PowGamma(frac)
        idx == RoundUnit(t * (RampLength - 1))
    IN  [ramp |-> RampSide(score),
         idx |-> Max(0, Min(idx, RampLength - 1)),
         alpha |-> (35 * Unit) \div 100 + (60 * frac) \div 100]

\* lines 323-337: the numbers behind one card.
MetricCard(metric, current_raw, entry) ==
    LET current_v == ToFloatOrNaN(current_raw)
        mu == BaselineOrDefault(entry)[1]
        sd == BaselineOrDefault(entry)[2]
        z == ZScore(current_v, mu, sd)
        score == IF HigherIsBetter[metric] THEN z ELSE -z
        color == CardColorFromScoreSigma(score, Abs(z))
    IN  [status |-> "drawn", z |-> z, sigma |-> Abs(z), score |-> score,
         ramp |-> color.ramp, idx |-> color.idx, alpha |-> color.alpha]

----------------------------------------------------------------------------
(* fixed_image_summary.run_once                                            *)

NoDay == 0
NoKey == 0

\* image_summary.render_sleep_report_png: its keyword-only parameters, and
\* those among them without a default.
RenderParameters ==
    {"current_summary", "session", "baselines", "output_path", "show_mean",
     "display_tz", "legend_below_y"}
RenderRequired == {"current_summary", "session", "baselines", "output_path"}

\* fixed_image_summary.run_once lines 263-271: the keywords of the call.
RenderCallKeywords ==
    {"current_summary", "session", "baselines", "output_path", "show_mean",
     "show_sigma", "display_tz"}

\* Python binds the call when every keyword is a parameter and every
\* parameter without a default is given; otherwise it raises TypeError.
RenderCallBinds ==
    RenderCallKeywords \subseteq RenderParameters /\ RenderRequired \subseteq RenderCallKeywords

Raised(kind, sleep_key, last) ==
    [outcome |-> kind, sleep_key |-> sleep_key, rendered |-> FALSE,
     send_attempted |-> FALSE, sent_ok |-> FALSE, last |-> last]

\* lines 230-235: if day is None: last = load_last_sent_key(); last == sleep_key
SkipNever(day, last, sleep_key) == FALSE
SkipAlreadySent(day, last, sleep_key) == day = NoDay /\ last = sleep_key

\* lines 275-285: the send step and the return value.
SendStep(send_telegram, tg, sleep_key, last) ==
    [outcome |-> "True", sleep_key |-> sleep_key, rendered |-> TRUE,
     send_attempted |-> send_telegram /\ tg # "no_env",
     sent_ok |-> send_telegram /\ tg = "ok",
     last |-> IF send_telegram /\ tg = "ok" THEN sleep_key ELSE last]

\* lines 244-247: the sessions build_stage_sessions returns for the fetched
\* window, one or none, and the current record they are matched against.
BuiltSessions(has_sessions) ==
    IF has_sessions THEN <<[start_utc |-> 0, end_utc |-> 1]>> ELSE <<>>

CurrentRecord == [time |-> ZTime(1)]

\* run_once(day, send_telegram) against the newest summary key `db_key`, the
\* stored key `last`, and what the collaborators answer: influx_up (the
\* connection and the queries succeed), blank (the record's calendarDate is
\* whitespace), has_sessions (the fetched intraday rows give at least one
\* session), tg (Telegram: "ok", "not_ok", "error", "no_env").
RunOnce(day, send_telegram, influx_up, blank, has_sessions, tg, db_key, last) ==
    IF ~influx_up THEN Raised("ConnectionError", NoKey, last)
    ELSE IF day # NoDay /\ day > db_key THEN Raised("SystemExit", NoKey, last)
    ELSE IF day = NoDay /\ db_key = NoKey THEN Raised("SystemExit", NoKey, last)
    ELSE IF blank THEN Raised("SystemExit", NoKey, last)
    ELSE LET sleep_key == IF day # NoDay THEN day ELSE db_key
         IN  IF SkipAlreadySent(day, last, sleep_key)
             THEN [Raised("False", sleep_key, last) EXCEPT !.outcome = "False"]
             ELSE LET m == MatchSessionToSummary(CurrentRecord, BuiltSessions(has_sessions))
                  IN  IF m.status # "ok" THEN Raised(m.status, sleep_key, last)
                      ELSE IF ~RenderCallBinds THEN Raised("TypeError", sleep_key, last)
                      ELSE SendStep(send_telegram, tg, sleep_key, last)

----------------------------------------------------------------------------
(* fixed_message.main and telegram_client.send_message *)

MainText(influx_up, blank, tg, db_key, last) ==
    IF ~influx_up THEN Raised("ConnectionError", NoKey, last)
    ELSE IF db_key = NoKey THEN Raised("TypeError", NoKey, last)
    ELSE IF blank THEN Raised("SystemExit", NoKey, last)
    ELSE IF last = db_key THEN Raised("None", db_key, last)
    ELSE IF tg = "no_env" THEN Raised("SystemExit", db_key, last)
    ELSE IF tg = "not_ok"
    THEN [Raised("RuntimeError", db_key, last) EXCEPT !.send_attempted = TRUE]
    ELSE IF tg = "error"
    THEN [Raised("ConnectionError", db_key, last) EXCEPT !.send_attempted = TRUE]
    ELSE [outcome |-> "None", sleep_key |-> db_key, rendered |-> FALSE,
          send_attempted |-> TRUE, sent_ok |-> TRUE, last |-> db_key]

----------------------------------------------------------------------------
(* scheduler *)

TargetSpec(m, f) == [mod |-> m, func |-> f]
NoTarget == TargetSpec("", "")

\* The callables each importable module defines or imports.
ModuleCallables ==
    [fixed_message |->
        {"parse_time_utc", "connect_influx", "load_last_sent_key", "save_last_sent_key",
         "fetch_sleep_summary_last_days", "select_current_and_prior_week", "main",
         "build_sleep_summary_text", "send_message"},
     fixed_image_summary |->
        {"load_last_sent_key", "save_last_sent_key", "repo_root_from_src_file",
         "telegram_send_photo", "_select_summary_for_day", "run_once", "main",
         "compute_metric_baselines", "build_stage_sessions", "match_session_to_summary",
         "render_sleep_report_png"}]

\* str.lower() on the values of SUMMARY_OUTPUT the model draws.
Lower(x) == IF x = "IMAGE" THEN "image" ELSE x

\* _default_target_from_summary_output
DefaultTargetFromSummaryOutput(summary_output) ==
    LET so == Lower(IF summary_output = "" THEN "text" ELSE summary_output)
    IN  IF so = "image" THEN TargetSpec("fixed_image_summary", "run_once")
        ELSE TargetSpec("fixed_message", "run_once")

\* main lines 86-90: args.target or SCHEDULER_TARGET or the default.
ResolveTargetSpec(c) ==
    IF c.cli_target # NoTarget THEN c.cli_target
    ELSE IF c.env_target # NoTarget THEN c.env_target
    ELSE DefaultTargetFromSummaryOutput(c.summary_output)

\* load_target: the module imports and the attribute is a callable.
TargetLoads(spec) ==
    /\ spec.mod \in DOMAIN ModuleCallables
    /\ spec.func \in ModuleCallables[spec.mod]

\* What calling the loaded target with no arguments does.
CallTarget(spec, influx_up, blank, has_sessions, tg, db_key, image_last, text_last) ==
    IF spec = TargetSpec("fixed_image_summary", "run_once")
    THEN RunOnce(NoDay, TRUE, influx_up, blank, has_sessions, tg, db_key, image_last)
    ELSE MainText(influx_up, blank, tg, db_key, text_last)

\* lines 112-121: the log line for one run.
RunLog(outcome) ==
    IF outcome = "True" THEN "SENT"
    ELSE IF outcome = "False" THEN "SKIPPED"
    ELSE IF outcome = "None" THEN "complete"
    ELSE IF outcome = "SystemExit" THEN "FATAL"
    ELSE "ERROR"

\* The outcomes of a call that are exceptions other than SystemExit.
IsReturn(outcome) == outcome \in {"True", "False", "None"}

AfterRunAnyExceptionEnds(outcome, once, rc_now) ==
    IF ~IsReturn(outcome) THEN [pc |-> "exited", rc |-> 1]
    ELSE IF once THEN [pc |-> "exited", rc |-> 0]
    ELSE [pc |-> "sleeping", rc |-> rc_now]

\* lines 116-128: what follows the target call: SystemExit returns 1, --once
\* returns 0, otherwise the loop sleeps.
AfterRun(outcome, once, rc_now) ==
    IF outcome = "SystemExit" THEN [pc |-> "exited", rc |-> 1]
    ELSE IF once THEN [pc |-> "exited", rc |-> 0]
    ELSE [pc |-> "sleeping", rc |-> rc_now]

----------------------------------------------------------------------------
(* Inputs of the session builder *)

MaxSamples == 3

SeqsUpTo(S, n) == UNION {[1..k -> S] : k \in 0..n}

Sample(t, s, d) == [time |-> t, stage |-> s, dur |-> d]

SampleClocks == {0, 300, 21900, 43501}

SampleDomain ==
    {Sample(ZTime(c), Num(0), d) : c \in SampleClocks, d \in {NoneVal, Num(0), Num(300)}}
    \cup {Sample(ZTime(0), Num(1), Num(30000)),
          Sample(PlusOneTime(3900), Num(2), NoneVal),
          Sample(ZTime(0), Num(3), BadVal),
          Sample(NoTime, Num(1), Num(300)),
          Sample(ZTime(300), NoneVal, Num(300)),
          Sample(BadTime, Num(1), Num(300))}

\* The scenario of the specification: t = 0, 300, 600, 40000 s.
ScenarioRows ==
    <<Sample(ZTime(0), Num(1), NoneVal), Sample(ZTime(300), Num(1), NoneVal),
      Sample(ZTime(600), Num(0), NoneVal), Sample(ZTime(40000), Num(1), NoneVal)>>

NotRun == [status |-> "pending", sessions |-> <<>>]

IdleSessions ==
    /\ intraday_rows = <<>>
    /\ sessions_out = NotRun

IdleMatch ==
    /\ match_summary = [time |-> NoTime]
    /\ match_sessions = <<>>
    /\ match_out = NoMatchYet

BaselineMetrics == {"sleepScore", "restingHeartRate"}

NoExclude == [given |-> FALSE, time |-> NoTime]
NoBaselinesYet == [status |-> "pending", out |-> [m \in BaselineMetrics |-> <<0, 0>>]]

IdleBaselines ==
    /\ summaries = <<>>
    /\ exclude_summary = NoExclude
    /\ min_count = 0
    /\ baselines_out = NoBaselinesYet

NoEntry == [present |-> FALSE, mu |-> 0, sd |-> 0]
NoCardYet ==
    [status |-> "pending", z |-> 0, sigma |-> 0, score |-> 0, ramp |-> "POS",
     idx |-> 0, alpha |-> 0]

NoColor == [ramp |-> "none", idx |-> 0, alpha |-> 0]

NoBatch ==
    [n |-> 0,
     upd |-> [update_id |-> 0, has_message |-> FALSE,
              chat |-> [kind |-> "none", v |-> 0, s |-> ""], text |-> "none"],
     journal_before |-> 0, confirmations_before |-> 0]

IdleListener ==
    /\ listener_env = [BOT_TOKEN |-> "", CHAT_ID |-> ""]
    /\ listener_pc = "start"
    /\ offset = 0
    /\ journal = <<>>
    /\ confirmations = 0
    /\ polled = NoBatch

IdleSanitize ==
    /\ sanitize_in = [s |-> <<>>, max_len |-> 0]
    /\ sanitize_out = [done |-> FALSE, once |-> <<>>, twice |-> <<>>]

IdleExport ==
    /\ stored = <<>>
    /\ chunk_size = 1
    /\ last_time = 0
    /\ yielded = <<>>
    /\ export_pc = "idle"

IdleTools == IdleListener /\ IdleSanitize /\ IdleExport

IdleColor ==
    /\ color_in = [score |-> 0, a |-> 0, b |-> 0]
    /\ color_out = [done |-> FALSE, a |-> NoColor, b |-> NoColor]

IdleCards ==
    /\ card_metric = "sleepScore"
    /\ card_current = NoneVal
    /\ card_baseline = NoEntry
    /\ card_out = NoCardYet

NoCallYet ==
    [fn |-> "none", last_before |-> NoKey, result |-> Raised("none", NoKey, NoKey)]

NoArgs ==
    [day |-> NoDay, send_telegram |-> FALSE, influx_up |-> FALSE, blank |-> FALSE,
     has_sessions |-> FALSE, tg |-> "ok", db_key |-> NoKey, last |-> NoKey]

IdleCall ==
    /\ call_args = NoArgs
    /\ call_result = Raised("pending", NoKey, NoKey)

IdleLoop ==
    /\ cfg = [cli_target |-> NoTarget, env_target |-> NoTarget, summary_output |-> "",
              once |-> FALSE]
    /\ pc = "start"
    /\ rc = -1
    /\ stop_event = FALSE
    /\ target_spec = NoTarget
    /\ runs = 0
    /\ last_log = "none"
    /\ latest = NoKey
    /\ image_last_sent_key = NoKey
    /\ text_last_sent_key = NoKey
    /\ image_ok_sends = <<>>
    /\ last_call = NoCallYet

IdleScheduler == IdleLoop /\ IdleCall

NoWindowSummary ==
    [time |-> NoTime, sleepTimeSeconds |-> NoneVal, awakeSleepSeconds |-> NoneVal]

IdleWindow ==
    /\ window_summary = NoWindowSummary
    /\ window_params = DefaultWindowParams
    /\ window_out = NoWindow

InitSessions ==
    /\ intraday_rows \in SeqsUpTo(SampleDomain, MaxSamples) \cup {ScenarioRows}
    /\ sessions_out = NotRun
    /\ IdleMatch
    /\ IdleBaselines
    /\ IdleCards
    /\ IdleWindow
    /\ IdleColor
    /\ IdleTools
    /\ IdleScheduler

CallBuildStageSessions ==
    /\ sessions_out.status = "pending"
    /\ sessions_out' = BuildStageSessions(intraday_rows)
    /\ UNCHANGED <<intraday_rows, matchVars, baselineVars, cardVars, schedVars, sendVars, callVars,
                   windowVars, colorVars, toolVars>>

NextSessions == CallBuildStageSessions

SpecSessions == InitSessions /\ [][NextSessions]_vars

----------------------------------------------------------------------------
(* Inputs of the session matcher *)

MaxSessions == 3

MatchTimes == 0..3

\* Candidate sessions, by their start and end instants.
SessionDomain ==
    {x \in [start_utc : MatchTimes, end_utc : MatchTimes] : x.start_utc <= x.end_utc}

SummaryTimes == {ZTime(c) : c \in MatchTimes} \cup {PlusOneTime(3601), NoTime, BadTime}

InitMatch ==
    /\ match_summary \in [time : SummaryTimes]
    /\ match_sessions \in SeqsUpTo(SessionDomain, MaxSessions)
    /\ match_out = NoMatchYet
    /\ IdleSessions
    /\ IdleBaselines
    /\ IdleCards
    /\ IdleWindow
    /\ IdleColor
    /\ IdleTools
    /\ IdleScheduler

CallMatchSessionToSummary ==
    /\ match_out.status = "pending"
    /\ match_out' = MatchSessionToSummary(match_summary, match_sessions)
    /\ UNCHANGED <<match_summary, match_sessions, sessionVars, baselineVars, cardVars,
                   schedVars, sendVars, callVars,
                   windowVars, colorVars, toolVars>>

NextMatch == CallMatchSessionToSummary

SpecMatch == InitMatch /\ [][NextMatch]_vars

----------------------------------------------------------------------------
(* Inputs of the baseline calculator *)

MaxHistory == 3
MaxMinCount == 3

Summary(t, score, rhr) == [time |-> t, sleepScore |-> score, restingHeartRate |-> rhr]

SummaryDomain ==
    {Summary(ZTime(1), Num(10), Num(30)),
     Summary(ZTime(1), Num(20), NoneVal),
     Summary(OffsetTime(1), Num(40), Num(30)),
     Summary(ZTime(2), Num(10), NoneVal),
     Summary(ZTime(2), NoneVal, Num(30)),
     Summary(ZTime(2), BadVal, Num(50)),
     Summary(ZTime(2), Num(30), Num(30)),
     Summary(NoTime, Num(20), Num(30))}

ExcludeDomain ==
    {NoExclude} \cup {[given |-> TRUE, time |-> t] : t \in {ZTime(1), OffsetTime(1), NoTime}}

\* The scenarios of the specification: histories 10..40 and 10..50, min_count 5.
ScenarioHistory(n) == [i \in 1..n |-> Summary(ZTime(i), Num(10 * i), NoneVal)]

DefaultMinCount == 5

InitBaselines ==
    /\ \/ /\ summaries \in SeqsUpTo(SummaryDomain, MaxHistory)
          /\ exclude_summary \in ExcludeDomain
          /\ min_count \in 0..MaxMinCount
       \/ /\ summaries \in {ScenarioHistory(4), ScenarioHistory(5)}
          /\ exclude_summary = NoExclude
          /\ min_count = DefaultMinCount
    /\ baselines_out = NoBaselinesYet
    /\ IdleSessions
    /\ IdleMatch
    /\ IdleCards
    /\ IdleWindow
    /\ IdleColor
    /\ IdleTools
    /\ IdleScheduler

CallComputeMetricBaselines ==
    /\ baselines_out.status = "pending"
    /\ baselines_out' =
           [status |-> "ok",
            out |-> ComputeMetricBaselines(summaries, BaselineMetrics, min_count,
                                           exclude_summary)]
    /\ UNCHANGED <<summaries, exclude_summary, min_count, sessionVars, matchVars,
                   cardVars, schedVars, sendVars, callVars,
                   windowVars, colorVars, toolVars>>

NextBaselines == CallComputeMetricBaselines

SpecBaselines == InitBaselines /\ [][NextBaselines]_vars

----------------------------------------------------------------------------
(* Inputs of the metric cards *)

MetricNames == DOMAIN HigherIsBetter

CurrentDomain == {NoneVal, BadVal} \cup {Num(x) : x \in {0, 10, 29, 30, 31, 50}}

\* Baseline entries: (mean, std) in hundredths, the sentinel (0, 0) included.
BaselineDomain ==
    {NoEntry} \cup {[present |-> TRUE, mu |-> m, sd |-> d] : m \in {0, 3000}, d \in {0, 100, 1414}}

InitCards ==
    /\ card_metric \in MetricNames
    /\ card_current \in CurrentDomain
    /\ card_baseline \in BaselineDomain
    /\ card_out = NoCardYet
    /\ IdleSessions
    /\ IdleMatch
    /\ IdleBaselines
    /\ IdleScheduler
    /\ IdleWindow
    /\ IdleColor
    /\ IdleTools

DrawMetricCard ==
    /\ card_out.status = "pending"
    /\ card_out' = MetricCard(card_metric, card_current, card_baseline)
    /\ UNCHANGED <<card_metric, card_current, card_baseline, sessionVars, matchVars,
                   baselineVars, schedVars, sendVars, callVars,
                   windowVars, colorVars, toolVars>>

NextCards == DrawMetricCard

SpecCards == InitCards /\ [][NextCards]_vars

----------------------------------------------------------------------------
(* The scheduler process and the data arriving in InfluxDB *)

MaxSleeps == 2
MaxRuns == 2

SleepKeys == 1..MaxSleeps

TelegramAnswers == {"ok", "not_ok", "error", "no_env"}

Config(cli, env, so, once) ==
    [cli_target |-> cli, env_target |-> env, summary_output |-> so, once |-> once]

ConfigDomain ==
    {Config(NoTarget, NoTarget, so, once) :
        so \in {"", "text", "image", "IMAGE", "video"}, once \in BOOLEAN}
    \cup {Config(TargetSpec("fixed_message", "main"), NoTarget, "", once) :
             once \in BOOLEAN}
    \cup {Config(NoTarget, TargetSpec("fixed_image_summary", "run_once"), "text", once) :
             once \in BOOLEAN}
    \cup {Config(TargetSpec("fixed_message", "main"),
                 TargetSpec("fixed_image_summary", "run_once"), "image", FALSE)}

InitScheduler ==
    /\ cfg \in ConfigDomain
    /\ pc = "start"
    /\ rc = -1
    /\ stop_event = FALSE
    /\ target_spec = NoTarget
    /\ runs = 0
    /\ last_log = "none"
    /\ latest = NoKey
    /\ image_last_sent_key \in {NoKey} \cup SleepKeys
    /\ text_last_sent_key = NoKey
    /\ image_ok_sends = [k \in SleepKeys |-> 0]
    /\ last_call = NoCallYet
    /\ IdleCall
    /\ IdleSessions
    /\ IdleMatch
    /\ IdleBaselines
    /\ IdleCards
    /\ IdleWindow
    /\ IdleColor
    /\ IdleTools

pureVars == <<sessionVars, matchVars, baselineVars, cardVars, windowVars, colorVars, toolVars>>

\* scheduler.main lines 76-107: resolve and load the target.
SchedulerStart ==
    /\ pc = "start"
    /\ target_spec' = ResolveTargetSpec(cfg)
    /\ IF TargetLoads(ResolveTargetSpec(cfg))
       THEN pc' = "loop" /\ rc' = rc
       ELSE pc' = "exited" /\ rc' = 2
    /\ UNCHANGED <<cfg, stop_event, runs, last_log, sendVars, callVars, pureVars>>

\* lines 109-128: one pass of the loop body, the target call included.
SchedulerIterate ==
    /\ pc = "loop"
    /\ ~stop_event
    /\ runs < MaxRuns
    /\ \E influx_up \in BOOLEAN, blank \in BOOLEAN, has_sessions \in BOOLEAN,
          tg \in TelegramAnswers :
          LET res == CallTarget(target_spec, influx_up, blank, has_sessions, tg, latest,
                                image_last_sent_key, text_last_sent_key)
              image == target_spec.mod = "fixed_image_summary"
          IN  /\ last_call' =
                     [fn |-> target_spec.func,
                      last_before |-> IF image THEN image_last_sent_key
                                      ELSE text_last_sent_key,
                      result |-> res]
              /\ image_last_sent_key' = IF image THEN res.last ELSE image_last_sent_key
              /\ text_last_sent_key' = IF image THEN text_last_sent_key ELSE res.last
              /\ image_ok_sends' =
                     IF image /\ res.sent_ok
                     THEN [image_ok_sends EXCEPT ![res.sleep_key] = @ + 1]
                     ELSE image_ok_sends
              /\ last_log' = RunLog(res.outcome)
              /\ pc' = AfterRun(res.outcome, cfg.once, rc).pc
              /\ rc' = AfterRun(res.outcome, cfg.once, rc).rc
    /\ runs' = runs + 1
    /\ UNCHANGED <<cfg, stop_event, target_spec, latest, callVars, pureVars>>

\* line 128: stop_event.wait(sleep_for) returns.
SchedulerWake ==
    /\ pc = "sleeping"
    /\ pc' = "loop"
    /\ UNCHANGED <<cfg, rc, stop_event, target_spec, runs, last_log, sendVars, callVars,
                   pureVars>>

\* lines 109, 130-131: the loop condition fails after a stop signal.
SchedulerStopped ==
    /\ pc = "loop"
    /\ stop_event
    /\ pc' = "exited"
    /\ rc' = 0
    /\ UNCHANGED <<cfg, stop_event, target_spec, runs, last_log, sendVars, callVars,
                   pureVars>>

\* lines 101-105: SIGTERM or SIGINT once the handlers are installed.
StopSignal ==
    /\ pc \in {"loop", "sleeping"}
    /\ ~stop_event
    /\ stop_event' = TRUE
    /\ UNCHANGED <<cfg, pc, rc, target_spec, runs, last_log, sendVars, callVars, pureVars>>

\* A new night's SleepSummary is written to InfluxDB.
NewSleep ==
    /\ latest < MaxSleeps
    /\ latest' = latest + 1
    /\ UNCHANGED <<schedVars, image_last_sent_key, text_last_sent_key, image_ok_sends,
                   last_call, callVars, pureVars>>

NextScheduler ==
    \/ SchedulerStart
    \/ SchedulerIterate
    \/ SchedulerWake
    \/ SchedulerStopped
    \/ StopSignal
    \/ NewSleep

SpecScheduler == InitScheduler /\ [][NextScheduler]_vars

----------------------------------------------------------------------------
(* One call of fixed_image_summary.run_once, as the scheduler, demo.py or  *)
(* fixed_image_summary.main make it                                        *)

ArgsDomain ==
    [day : {NoDay} \cup SleepKeys, send_telegram : BOOLEAN, influx_up : BOOLEAN,
     blank : BOOLEAN, has_sessions : BOOLEAN, tg : TelegramAnswers,
     db_key : {NoKey} \cup SleepKeys, last : {NoKey} \cup SleepKeys]

InitRunOnce ==
    /\ call_args \in ArgsDomain
    /\ call_result = Raised("pending", NoKey, NoKey)
    /\ IdleSessions
    /\ IdleMatch
    /\ IdleBaselines
    /\ IdleCards
    /\ IdleWindow
    /\ IdleColor
    /\ IdleTools
    /\ IdleLoop

CallRunOnce ==
    /\ call_result.outcome = "pending"
    /\ call_result' =
           RunOnce(call_args.day, call_args.send_telegram, call_args.influx_up,
                   call_args.blank, call_args.has_sessions, call_args.tg,
                   call_args.db_key, call_args.last)
    /\ UNCHANGED <<call_args, schedVars, sendVars, pureVars>>

NextRunOnce == CallRunOnce

SpecRunOnce == InitRunOnce /\ [][NextRunOnce]_vars

----------------------------------------------------------------------------
(* Inputs of the fetch-window calculation *)

WindowTimes == {ZTime(0), ZTime(100000), PlusOneTime(3600), NoTime, BadTime}

SleepSecondsDomain ==
    {NoneVal, BadVal, Num(0), Num(10000), Num(30000), Num(50000)}

AwakeSecondsDomain == {NoneVal, Num(0), Num(600), Num(3600), Num(30000)}

\* Keyword arguments: the defaults, and two other settings of the interval.
WindowParamsDomain ==
    {DefaultWindowParams,
     [extra_before_hours |-> 0, extra_after_hours |-> 0,
      min_window_hours |-> 0, max_window_hours |-> 10],
     [extra_before_hours |-> 10, extra_after_hours |-> 5,
      min_window_hours |-> 120, max_window_hours |-> 120]}

InitWindow ==
    /\ window_summary \in [time : WindowTimes, sleepTimeSeconds : SleepSecondsDomain,
                            awakeSleepSeconds : AwakeSecondsDomain]
    /\ window_params \in WindowParamsDomain
    /\ window_out = NoWindow
    /\ IdleSessions
    /\ IdleMatch
    /\ IdleBaselines
    /\ IdleCards
    /\ IdleColor
    /\ IdleTools
    /\ IdleScheduler

CallComputeIntradayFetchWindow ==
    /\ window_out.status = "pending"
    /\ window_out' = ComputeIntradayFetchWindow(window_summary, window_params)
    /\ UNCHANGED <<window_summary, window_params, sessionVars, matchVars, baselineVars,
                   cardVars, schedVars, sendVars, callVars, colorVars, toolVars>>

NextWindow == CallComputeIntradayFetchWindow

SpecWindow == InitWindow /\ [][NextWindow]_vars

----------------------------------------------------------------------------
(* Inputs of the card colour *)

MaxSigmaSteps == 60

\* Sigmas from below 0 to beyond the cap, in thousandths.
SigmaDomain == {50 * i : i \in (-1)..MaxSigmaSteps}

ScoreDomain == {-1000, 0, 1000}

InitColor ==
    /\ color_in \in [score : ScoreDomain, a : SigmaDomain, b : SigmaDomain]
    /\ color_out = [done |-> FALSE, a |-> NoColor, b |-> NoColor]
    /\ IdleSessions
    /\ IdleMatch
    /\ IdleBaselines
    /\ IdleCards
    /\ IdleWindow
    /\ IdleTools
    /\ IdleScheduler

CallCardColor ==
    /\ ~color_out.done
    /\ color_out' = [done |-> TRUE,
                     a |-> CardColorFromScoreSigma(color_in.score, color_in.a),
                     b |-> CardColorFromScoreSigma(color_in.score, color_in.b)]
    /\ UNCHANGED <<color_in, sessionVars, matchVars, baselineVars, cardVars, schedVars,
                   sendVars, callVars, windowVars, toolVars>>

NextColor == CallCardColor

SpecColor == InitColor /\ [][NextColor]_vars

----------------------------------------------------------------------------
(* telegram_listener.handle_message and run_listener_forever *)

NoChat == [kind |-> "none", v |-> 0, s |-> ""]
IntChat(n) == [kind |-> "int", v |-> n, s |-> ""]
StrChat(t) == [kind |-> "str", v |-> 0, s |-> t]

\* str(chat_id) for the chat ids of the model.
DecimalText(n) == IF n = 100 THEN "100" ELSE IF n = 200 THEN "200" ELSE "0"

StrOf(chat_id) == IF chat_id.kind = "int" THEN DecimalText(chat_id.v) ELSE chat_id.s

\* lines 109-116: the message is from the configured chat.
AcceptsAnyChat(chat_id, CHAT_ID) == chat_id.kind # "none"
AcceptsChat(chat_id, CHAT_ID) == chat_id.kind # "none" /\ StrOf(chat_id) = CHAT_ID

\* lines 128-133: msg_type of the stored entry.
MsgType(text) == IF text = "text" THEN "text" ELSE "non_text"

NothingDone == [wrote |-> FALSE, sent |-> FALSE, raised |-> FALSE]

\* handle_message: what it does for one message, given whether the InfluxDB
\* write and the Telegram send succeed.
HandleMessage(msg, CHAT_ID, influx_ok, tg_ok) ==
    IF ~AcceptsChat(msg.chat, CHAT_ID) THEN NothingDone
    ELSE IF ~influx_ok THEN [NothingDone EXCEPT !.raised = TRUE]
    ELSE [wrote |-> TRUE, sent |-> tg_ok, raised |-> ~tg_ok]

JournalEntry(upd) ==
    [chat_id |-> StrOf(upd.chat), update_id |-> upd.update_id,
     msg_type |-> MsgType(upd.text)]

MaxBatch == 2
MaxUpdateId == 3

ChatDomain == {NoChat, IntChat(100), IntChat(200), StrChat("100")}

\* An update without a message, and updates with one.
NoMessage(id) == [update_id |-> id, has_message |-> FALSE, chat |-> NoChat, text |-> "none"]

UpdateDomain ==
    {NoMessage(id) : id \in 1..MaxUpdateId}
    \cup [update_id : 1..MaxUpdateId, has_message : {TRUE}, chat : ChatDomain,
          text : {"none", "blank", "text"}]

InitListener ==
    /\ listener_env \in [BOT_TOKEN : {"", "token"}, CHAT_ID : {"", "100"}]
    /\ listener_pc = "start"
    /\ offset = 0
    /\ journal = <<>>
    /\ confirmations = 0
    /\ polled = NoBatch
    /\ IdleSanitize
    /\ IdleExport
    /\ IdleSessions
    /\ IdleMatch
    /\ IdleBaselines
    /\ IdleCards
    /\ IdleWindow
    /\ IdleColor
    /\ IdleScheduler

restOfListener ==
    <<sessionVars, matchVars, baselineVars, cardVars, windowVars, colorVars, schedVars,
      sendVars, callVars, sanitizeVars, exportVars>>

\* lines 153-159: the environment checks, connect_influx, load_offset.
ListenerStart ==
    /\ listener_pc = "start"
    /\ listener_pc' = IF listener_env.BOT_TOKEN = "" \/ listener_env.CHAT_ID = ""
                      THEN "exited" ELSE "poll"
    /\ UNCHANGED <<listener_env, offset, journal, confirmations, polled, restOfListener>>

\* lines 161-163: getUpdates returns a batch (an error is logged and the
\* loop polls again).
ListenerPoll ==
    /\ listener_pc = "poll"
    /\ listener_pc' = "batch"
    /\ polled' = [NoBatch EXCEPT !.journal_before = Len(journal),
                                 !.confirmations_before = confirmations]
    /\ UNCHANGED <<listener_env, offset, journal, confirmations, restOfListener>>

\* lines 164-172: one pass of the for loop, over the next update of the
\* batch; an exception of the write or of the send ends the batch.
ListenerHandle ==
    /\ listener_pc = "batch"
    /\ polled.n < MaxBatch
    /\ \E upd \in UpdateDomain, influx_ok \in BOOLEAN, tg_ok \in BOOLEAN :
          LET did == IF upd.has_message
                     THEN HandleMessage(upd, listener_env.CHAT_ID, influx_ok, tg_ok)
                     ELSE NothingDone
          IN  /\ upd.update_id >= offset
              /\ upd.update_id > polled.upd.update_id
              /\ offset' = Max(offset, upd.update_id + 1)
              /\ journal' = IF did.wrote THEN Append(journal, JournalEntry(upd))
                            ELSE journal
              /\ confirmations' = confirmations + (IF did.sent THEN 1 ELSE 0)
              /\ polled' = [n |-> polled.n + 1, upd |-> upd,
                            journal_before |-> Len(journal),
                            confirmations_before |-> confirmations]
              /\ listener_pc' = IF did.raised THEN "poll" ELSE "batch"
    /\ UNCHANGED <<listener_env, restOfListener>>

\* lines 174-179: the batch is exhausted: save_offset, sleep, poll again.
ListenerSave ==
    /\ listener_pc = "batch"
    /\ listener_pc' = "poll"
    /\ UNCHANGED <<listener_env, offset, journal, confirmations, polled, restOfListener>>

NextListener ==
    \/ ListenerStart
    \/ ListenerPoll
    \/ ListenerHandle
    \/ ListenerSave

SpecListener == InitListener /\ [][NextListener]_vars

----------------------------------------------------------------------------
(* telegram_listener.py: sanitize_text.  A string is a sequence of
   characters, each standing for its class: "a" an ordinary character, " "
   the space, "tab" whitespace other than the space (\t, \n, \r), "vt"
   whitespace that CONTROL also matches (\x0b, \x0c, \x1c-\x1f), "nul" a
   control character that is not whitespace (\x00-\x08, \x0e-\x1b, \x7f). *)

Characters == {"a", " ", "tab", "vt", "nul"}

\* str.strip() and \s: what counts as whitespace.
IsSpace(c) == c \in {" ", "tab", "vt"}

\* line 53: CONTROL.
IsControl(c) == c \in {"vt", "nul"}

RECURSIVE LStrip(_)
LStrip(s) == IF s # <<>> /\ IsSpace(Head(s)) THEN LStrip(Tail(s)) ELSE s

RECURSIVE RStrip(_)
RStrip(s) ==
    IF s # <<>> /\ IsSpace(s[Len(s)]) THEN RStrip(SubSeq(s, 1, Len(s) - 1)) ELSE s

Strip(s) == RStrip(LStrip(s))

\* line 63: CONTROL.sub("", s).
RemoveControl(s) == SelectSeq(s, LAMBDA c : ~IsControl(c))

\* line 64: WHITESPACE.sub(" ", s): every maximal run of whitespace becomes
\* one space.
RECURSIVE CollapseWhitespace(_)
CollapseWhitespace(s) ==
    IF s = <<>> THEN <<>>
    ELSE IF IsSpace(Head(s)) THEN <<" ">> \o CollapseWhitespace(LStrip(s))
    ELSE <<Head(s)>> \o CollapseWhitespace(Tail(s))

\* lines 65-66: s[:max_len] when the string is longer.
Truncate(s, max_len) == IF Len(s) > max_len THEN SubSeq(s, 1, max_len) ELSE s

\* lines 61-67.
SanitizeText(s, max_len) ==
    Truncate(Strip(CollapseWhitespace(RemoveControl(Strip(s)))), max_len)

MaxText == 4

RECURSIVE Strings(_)
Strings(n) ==
    IF n = 0 THEN {<<>>}
    ELSE Strings(n - 1) \cup {Append(t, c) : t \in Strings(n - 1), c \in Characters}

InitSanitize ==
    /\ sanitize_in \in [s : Strings(MaxText), max_len : 1..MaxText]
    /\ sanitize_out = [done |-> FALSE, once |-> <<>>, twice |-> <<>>]
    /\ IdleListener
    /\ IdleExport
    /\ IdleSessions
    /\ IdleMatch
    /\ IdleBaselines
    /\ IdleCards
    /\ IdleWindow
    /\ IdleColor
    /\ IdleScheduler

\* sanitize_text(s, max_len), and sanitize_text of what it returned.
CallSanitizeText ==
    /\ ~sanitize_out.done
    /\ sanitize_out' =
          LET once == SanitizeText(sanitize_in.s, sanitize_in.max_len)
          IN  [done |-> TRUE, once |-> once,
               twice |-> SanitizeText(once, sanitize_in.max_len)]
    /\ UNCHANGED <<sanitize_in, listenerVars, exportVars, sessionVars, matchVars,
                   baselineVars, cardVars, windowVars, colorVars, schedVars, sendVars,
                   callVars>>

NextSanitize == CallSanitizeText

SpecSanitize == InitSanitize /\ [][NextSanitize]_vars

----------------------------------------------------------------------------
(* sleep_data_export.py: stream_points.  A point is its time, in seconds
   after the epoch, and the series (tag set) it belongs to: InfluxDB keeps
   one point per series and timestamp, and SELECT * merges the series of
   the measurement. *)

MaxTime == 3
MaxChunk == 2

SeriesNames == {"watch", "ring"}

PointDomain == [time : 1..MaxTime, series : SeriesNames]

Before(p, q) ==
    \/ p.time < q.time
    \/ p.time = q.time /\ p.series = "watch" /\ q.series = "ring"

\* ORDER BY time ASC over a set of points.
RECURSIVE OrderByTime(_)
OrderByTime(ps) ==
    IF ps = {} THEN <<>>
    ELSE LET first == CHOOSE p \in ps : \A q \in ps \ {p} : Before(p, q)
         IN  <<first>> \o OrderByTime(ps \ {first})

\* lines 177-183: WHERE time > last_time ORDER BY time ASC LIMIT chunk_size.
Query(points, after, limit) ==
    LET later == SelectSeq(points, LAMBDA p : p.time > after)
    IN  SubSeq(later, 1, Min(Len(later), limit))

\* line 175: last_time starts at the epoch.
InitExport ==
    /\ stored \in {OrderByTime(ps) : ps \in SUBSET PointDomain}
    /\ chunk_size \in 1..MaxChunk
    /\ last_time = 0
    /\ yielded = <<>>
    /\ export_pc = "query"
    /\ IdleListener
    /\ IdleSanitize
    /\ IdleSessions
    /\ IdleMatch
    /\ IdleBaselines
    /\ IdleCards
    /\ IdleWindow
    /\ IdleColor
    /\ IdleScheduler

\* lines 176-191: one pass of the while loop.
StreamChunk ==
    /\ export_pc = "query"
    /\ LET points == Query(stored, last_time, chunk_size)
       IN  IF points = <<>>
           THEN /\ export_pc' = "done"
                /\ UNCHANGED <<yielded, last_time>>
           ELSE /\ yielded' = yielded \o points
                /\ last_time' = points[Len(points)].time
                /\ export_pc' = IF Len(points) < chunk_size THEN "done" ELSE "query"
    /\ UNCHANGED <<stored, chunk_size, listenerVars, sanitizeVars, sessionVars,
                   matchVars, baselineVars, cardVars, windowVars, colorVars, schedVars,
                   sendVars, callVars>>

NextExport == StreamChunk

SpecExport == InitExport /\ [][NextExport]_vars

----------------------------------------------------------------------------
(* Claims about build_stage_sessions *)

RECURSIVE Flatten(_)
Flatten(ss) == IF ss = <<>> THEN <<>> ELSE Head(ss).points \o Flatten(Tail(ss))

Count(seq, x) == Cardinality({i \in 1..Len(seq) : seq[i] = x})

SampleValues == SampleDomain \cup {ScenarioRows[i] : i \in 1..Len(ScenarioRows)}

HasStageAndTime(r) == r.stage # NoneVal /\ r.time # NoTime

PointTime(p) == ParseTimeUtc(p.time)

SessionSizes(ss) == [k \in 1..Len(ss) |-> Len(ss[k].points)]

\* C1: when build_stage_sessions returns, the points of the returned sessions
\* taken together are exactly the input samples that have both a stage code
\* and a timestamp, each as often as it occurs in the input, and no sample
\* missing either field occurs in any session.
C1_PointsAreRetainedSamples ==
    sessions_out.status = "ok" =>
        \A x \in SampleValues :
            Count(Flatten(sessions_out.sessions), x) =
                IF HasStageAndTime(x) THEN Count(intraday_rows, x) ELSE 0

C1_Witness ==
    /\ sessions_out.status = "ok"
    /\ Len(sessions_out.sessions) = 2
    /\ Len(Flatten(sessions_out.sessions)) = 2
    /\ Len(intraday_rows) = 3

\* C2: in time order, consecutive retained samples at most the gap threshold
\* apart share a session (a gap exactly at the threshold included), samples
\* more than the threshold apart are in different sessions, and the samples
\* at 0, 300, 600, 40000 s give two sessions of sizes 3 and 1.
C2_GapRule ==
    sessions_out.status = "ok" =>
        LET ss == sessions_out.sessions
            gap_s == GapHours * SecondsPerHour
        IN  /\ \A k \in 1..Len(ss) : \A i \in 1..(Len(ss[k].points) - 1) :
                   LET d == PointTime(ss[k].points[i + 1]) - PointTime(ss[k].points[i])
                   IN  0 <= d /\ d <= gap_s
            /\ \A k \in 1..(Len(ss) - 1) :
                   PointTime(ss[k + 1].points[1])
                       - PointTime(ss[k].points[Len(ss[k].points)]) > gap_s
            /\ intraday_rows = ScenarioRows => SessionSizes(ss) = <<3, 1>>

C2_Witness ==
    /\ sessions_out.status = "ok"
    /\ Len(sessions_out.sessions) = 2
    /\ \E k \in 1..Len(sessions_out.sessions) :
           LET pts == sessions_out.sessions[k].points
           IN  \E i \in 1..(Len(pts) - 1) :
                  PointTime(pts[i + 1]) - PointTime(pts[i]) = GapHours * SecondsPerHour

----------------------------------------------------------------------------
(* Claims about match_session_to_summary *)

TargetInstant == ParseTimeUtc(match_summary.time)

Distance(s) == Abs(s.end_utc - TargetInstant)

Equidistant(i) == Distance(match_sessions[i]) = Distance(match_out.session)

IsNearest ==
    /\ \E i \in 1..Len(match_sessions) : match_sessions[i] = match_out.session
    /\ \A j \in 1..Len(match_sessions) :
           Distance(match_out.session) <= Distance(match_sessions[j])

OrderedByStart ==
    \A i \in 1..(Len(match_sessions) - 1) :
        match_sessions[i].start_utc <= match_sessions[i + 1].start_utc

\* C3 as stated: the returned session is nearest to the target by end_utc
\* and, among equidistant candidates, has the earliest start_utc whatever
\* the order of the input list.
C3_EarliestStartAnyOrder ==
    match_out.status = "ok" =>
        /\ IsNearest
        /\ \A j \in 1..Len(match_sessions) :
               Equidistant(j) => match_out.session.start_utc <= match_sessions[j].start_utc

\* C3 amended: the returned session is nearest to the target by end_utc;
\* among equidistant candidates it is the first in the input list, which is
\* the earliest-starting one when the list is ordered by start_utc.
C3_FirstOfNearestInListOrder ==
    match_out.status = "ok" =>
        /\ IsNearest
        /\ \E i \in 1..Len(match_sessions) :
               /\ match_sessions[i] = match_out.session
               /\ \A j \in 1..(i - 1) : ~Equidistant(j)
        /\ OrderedByStart =>
               \A j \in 1..Len(match_sessions) :
                   Equidistant(j) =>
                       match_out.session.start_utc <= match_sessions[j].start_utc

C3_Witness ==
    /\ match_out.status = "ok"
    /\ Len(match_sessions) = 3
    /\ OrderedByStart
    /\ \E i, j \in 1..Len(match_sessions) :
           /\ i < j
           /\ Equidistant(i) /\ Equidistant(j)
           /\ match_sessions[i].end_utc # match_sessions[j].end_utc
           /\ match_sessions[i].start_utc < match_sessions[j].start_utc
           /\ match_out.session = match_sessions[i]

----------------------------------------------------------------------------
(* Claims about compute_metric_baselines *)

\* The history without the records whose time is the instant of t.
RECURSIVE WithoutInstant(_, _)
WithoutInstant(records, t) ==
    IF records = <<>> THEN <<>>
    ELSE IF CanParseTime(Head(records).time)
            /\ ParseTimeUtc(Head(records).time) = ParseTimeUtc(t)
         THEN WithoutInstant(Tail(records), t)
         ELSE <<Head(records)>> \o WithoutInstant(Tail(records), t)

\* C4: with an exclude record, the baselines use no value of any history
\* record whose timestamp is the same instant as the exclude record's,
\* however many records share it and whatever representation either uses:
\* the result is the one computed from the history without those records.
C4_ExcludesSameInstant ==
    (baselines_out.status = "ok" /\ exclude_summary.given
        /\ CanParseTime(exclude_summary.time)) =>
        baselines_out.out =
            ComputeMetricBaselines(WithoutInstant(summaries, exclude_summary.time),
                                   BaselineMetrics, min_count, NoExclude)

\* The numeric values of a metric in the records the call keeps: those whose
\* 'time' value differs from the exclude record's 'time' value.
KeptNumeric(metric) ==
    LET kept(i) == ~(exclude_summary.given /\ exclude_summary.time # NoTime
                       /\ summaries[i].time = exclude_summary.time)
        idx == SelectSeq([i \in 1..Len(summaries) |-> i],
                         LAMBDA i : kept(i) /\ summaries[i][metric].kind = "num")
    IN  [k \in 1..Len(idx) |-> summaries[idx[k]][metric].v]

\* C5: for every metric the baseline is exactly (0, 0) when fewer than
\* min_count kept records carry a numeric value for it (as for the four
\* values 10, 20, 30, 40 with min_count 5), and otherwise it is the mean and
\* standard deviation of those values.
C5_SentinelBelowMinCount ==
    baselines_out.status = "ok" =>
        /\ \A m \in BaselineMetrics :
               IF Len(KeptNumeric(m)) < min_count
               THEN baselines_out.out[m] = <<0, 0>>
               ELSE baselines_out.out[m] = MeanStd(KeptNumeric(m))
        /\ summaries = ScenarioHistory(4) => baselines_out.out["sleepScore"] = <<0, 0>>

C5_Witness ==
    /\ baselines_out.status = "ok"
    /\ min_count = 2
    /\ exclude_summary.time = ZTime(1)
    /\ \E i \in 1..Len(summaries) : summaries[i].time = ZTime(1)
    /\ Len(KeptNumeric("sleepScore")) = 2
    /\ Len(KeptNumeric("restingHeartRate")) = 1
    /\ baselines_out.out["sleepScore"][2] > 0
    /\ baselines_out.out["restingHeartRate"] = <<0, 0>>
    /\ exclude_summary.given

----------------------------------------------------------------------------
(* Claims about draw_metric_cards *)

CurrentIsNumeric == card_current.kind = "num"

\* (current - mean) in hundredths, times the thousandths of z.
Deviation == (card_current.v * Scale - card_baseline.mu) * ZScale

\* C6: the z-score of a card is 0 when the current value is absent or not
\* numeric, when the baseline standard deviation is 0 (the (0, 0) sentinel
\* included) and when the metric has no baseline entry; otherwise it is
\* (current - mean) / std, here to within one thousandth and with its sign.
C6_ZScoreRule ==
    card_out.status = "drawn" =>
        IF ~CurrentIsNumeric \/ ~card_baseline.present \/ card_baseline.sd = 0
        THEN card_out.z = 0
        ELSE /\ Abs(Deviation - card_out.z * card_baseline.sd) < card_baseline.sd
             /\ Deviation >= 0 => card_out.z >= 0
             /\ Deviation <= 0 => card_out.z <= 0

C6_Witness ==
    /\ card_out.status = "drawn"
    /\ CurrentIsNumeric
    /\ card_baseline.present
    /\ card_baseline.sd = 1414
    /\ card_current.v = 50
    /\ card_out.z = 1414

BelowMean ==
    CurrentIsNumeric /\ card_current.v * Scale < BaselineOrDefault(card_baseline)[1]

\* C7 as stated: for a lower-is-better metric and every baseline, a current
\* value below the baseline mean gives a goodness score above 0.
C7_BelowMeanIsGoodAnyBaseline ==
    (card_out.status = "drawn" /\ ~HigherIsBetter[card_metric] /\ BelowMean) =>
        card_out.score > 0

\* C7 amended: for a lower-is-better metric and a baseline whose standard
\* deviation is above 0, a current value below the mean gives a goodness
\* score above 0; with a standard deviation of 0 the score is 0; the
\* favourable ramp is selected in both cases.
C7_BelowMeanIsGoodWhenStdPositive ==
    (card_out.status = "drawn" /\ ~HigherIsBetter[card_metric] /\ BelowMean) =>
        /\ card_baseline.sd > 0 => card_out.score > 0
        /\ card_baseline.sd = 0 => card_out.score = 0
        /\ card_out.ramp = "POS"

C7_Witness ==
    /\ card_out.status = "drawn"
    /\ card_metric = "restingHeartRate"
    /\ BelowMean
    /\ card_baseline.sd > 0
    /\ card_out.score > 0

----------------------------------------------------------------------------
(* Claims about the image report's send dedupe, the scheduler's default    *)
(* target and the render step                                              *)

ImageCall == last_call.fn = "run_once"

\* The send step of run_once, taken by itself: the stored key changes only
\* with an ok send, and then to the key that was sent.
SendStepWritesOnlyAfterOk ==
    \A send_telegram \in BOOLEAN, tg \in TelegramAnswers,
       k \in SleepKeys, l \in {NoKey} \cup SleepKeys :
        LET r == SendStep(send_telegram, tg, k, l)
        IN  /\ r.last # l => r.sent_ok
            /\ ~r.sent_ok => r.last = l
            /\ r.sent_ok => r.last = k

NoExplicitTarget == cfg.cli_target = NoTarget /\ cfg.env_target = NoTarget

\* C9: with no --target and no SCHEDULER_TARGET, once the scheduler has
\* resolved its target: for SUMMARY_OUTPUT unset, 'text' or invalid the target
\* is fixed_message:run_once and the scheduler has not exited with code 2;
\* for SUMMARY_OUTPUT 'image' the target is fixed_image_summary:run_once.
C9_DefaultTargetLoads ==
    (NoExplicitTarget /\ pc # "start") =>
        /\ cfg.summary_output \in {"", "text", "video"} =>
              /\ target_spec = TargetSpec("fixed_message", "run_once")
              /\ ~(pc = "exited" /\ rc = 2)
        /\ cfg.summary_output = "image" =>
              target_spec = TargetSpec("fixed_image_summary", "run_once")

SummaryExists ==
    /\ call_args.influx_up
    /\ call_args.db_key # NoKey
    /\ call_args.day # NoDay => call_args.day <= call_args.db_key
    /\ ~call_args.blank

KeyIsNew ==
    \/ call_args.day # NoDay
    \/ call_args.last # call_args.db_key

\* C10: a run_once call that finds a current summary whose key differs from
\* last_sent_key (or that is given a day override) and builds at least one
\* stage session renders the PNG and returns True.
C10_RunOnceRenders ==
    (call_result.outcome # "pending" /\ SummaryExists /\ KeyIsNew
     /\ call_args.has_sessions)
    => /\ call_result.outcome = "True"
       /\ call_result.rendered

----------------------------------------------------------------------------
(* Claims about the sessions' boundaries and their points *)

LastPoint(sess) == sess.points[Len(sess.points)]

\* C11: every returned session ends at its last point's timestamp plus that
\* point's own duration when the point has a numeric duration (a duration of
\* 0 included) and plus 240 s when it has none; one sample without duration
\* gives one one-point session lasting 240 s; no samples give an empty list
\* and no error.
C11_EndIsLastPlusOwnDuration ==
    /\ (sessions_out.status # "pending" /\ intraday_rows = <<>>) =>
           sessions_out = [status |-> "ok", sessions |-> <<>>]
    /\ sessions_out.status = "ok" =>
          LET ss == sessions_out.sessions
          IN  /\ \A k \in 1..Len(ss) :
                     LET last == LastPoint(ss[k])
                     IN  /\ last.dur.kind = "num" =>
                               ss[k].end_utc = PointTime(last) + last.dur.v
                         /\ last.dur = NoneVal =>
                               ss[k].end_utc = PointTime(last) + DefaultLastDuration
              /\ (Len(intraday_rows) = 1 /\ HasStageAndTime(intraday_rows[1])
                   /\ intraday_rows[1].dur = NoneVal) =>
                     /\ Len(ss) = 1
                     /\ Len(ss[1].points) = 1
                     /\ ss[1].end_utc - ss[1].start_utc = DefaultLastDuration

\* C12: the sessions of one call are time-disjoint: of any two, the earlier
\* one's end_utc is no later than the later one's start_utc.
C12_SessionsDisjoint ==
    sessions_out.status = "ok" =>
        LET ss == sessions_out.sessions
        IN  \A k \in 1..Len(ss) : \A l \in (k + 1)..Len(ss) :
                ss[k].end_utc <= ss[l].start_utc

\* C13: every returned session has at least one point, its points are in
\* strictly ascending timestamp order, and consecutive points are no more
\* than the gap threshold apart.
C13_PointsStrictlyOrdered ==
    sessions_out.status = "ok" =>
        LET ss == sessions_out.sessions
        IN  \A k \in 1..Len(ss) :
                /\ ss[k].points # <<>>
                /\ \A i \in 1..(Len(ss[k].points) - 1) :
                       LET d == PointTime(ss[k].points[i + 1]) - PointTime(ss[k].points[i])
                       IN  0 < d /\ d <= GapHours * SecondsPerHour

WellFormed(r) == HasStageAndTime(r) /\ CanParseTime(r.time)

\* C14: build_stage_sessions never raises on a malformed sample: a call with
\* a sample whose timestamp cannot be parsed, or whose duration is not
\* numeric, returns, and the returned sessions hold exactly the samples that
\* have a stage and a parsable timestamp.
C14_MalformedSamplesSkipped ==
    sessions_out.status # "pending" =>
        /\ sessions_out.status = "ok"
        /\ \A x \in SampleValues :
               Count(Flatten(sessions_out.sessions), x) =
                   IF WellFormed(x) THEN Count(intraday_rows, x) ELSE 0

----------------------------------------------------------------------------
(* Claims about an empty candidate list *)

\* C15: match_session_to_summary given no sessions raises and returns no
\* session, whatever the summary; and a run_once call that gets as far as
\* the matching with no session built ends with that error, with nothing
\* rendered, no send attempted and last_sent_key as it was.
C15_EmptyCandidatesFail ==
    /\ \A t \in SummaryTimes :
           MatchSessionToSummary([time |-> t], <<>>)
               = [status |-> "ValueError", session |-> NoSession]
    /\ (call_result.outcome # "pending" /\ SummaryExists /\ KeyIsNew
         /\ ~call_args.has_sessions)
        => /\ call_result.outcome = "ValueError"
           /\ ~call_result.rendered
           /\ ~call_result.send_attempted
           /\ ~call_result.sent_ok
           /\ call_result.last = call_args.last

C15_Witness ==
    /\ call_result.outcome = "ValueError"
    /\ SummaryExists
    /\ KeyIsNew
    /\ ~call_args.has_sessions
    /\ call_args.send_telegram
    /\ call_args.tg = "ok"
    /\ call_args.last # NoKey

----------------------------------------------------------------------------
(* Claims about compute_intraday_fetch_window *)

SummaryInstant == ParseTimeUtc(window_summary.time)

SecondsOrZero(x) == IF x = NoneVal THEN 0 ELSE x.v

PaddedEstimate ==
    SecondsOrZero(window_summary.sleepTimeSeconds)
        + SecondsOrZero(window_summary.awakeSleepSeconds)
        + window_params.extra_before_hours * TenthHourSeconds
        + window_params.extra_after_hours * TenthHourSeconds

MinWindow == window_params.min_window_hours * TenthHourSeconds
MaxWindow == window_params.max_window_hours * TenthHourSeconds

\* C16: when compute_intraday_fetch_window returns, the start is the summary
\* time T minus the window and the end is T plus extra_after_hours, where the
\* window is sleepTimeSeconds + awakeSleepSeconds (a missing field counting
\* as 0) plus both paddings, raised to min_window_hours when below it and
\* lowered to max_window_hours when above it; so T - start lies between
\* min_window_hours and max_window_hours.
C16_WindowClamped ==
    window_out.status = "ok" =>
        /\ SummaryInstant - window_out.start_utc =
               IF PaddedEstimate < MinWindow THEN MinWindow
               ELSE IF PaddedEstimate > MaxWindow THEN MaxWindow
               ELSE PaddedEstimate
        /\ window_out.end_utc =
               SummaryInstant + window_params.extra_after_hours * TenthHourSeconds
        /\ SummaryInstant - window_out.start_utc >= MinWindow
        /\ SummaryInstant - window_out.start_utc <= MaxWindow

C16_Witness ==
    /\ window_out.status = "ok"
    /\ window_params = DefaultWindowParams
    /\ window_summary.sleepTimeSeconds = NoneVal
    /\ window_summary.awakeSleepSeconds = Num(600)
    /\ SummaryInstant - window_out.start_utc = MinWindow
    /\ window_out.end_utc = SummaryInstant + 5400

----------------------------------------------------------------------------
(* Claims about the values compute_metric_baselines uses *)

\* C17: the call returns for every history, and for every metric the result
\* is the one the history gives once the records whose value for that metric
\* is missing or not numeric are taken out of it: such a record adds nothing
\* to the count compared with min_count, to the mean or to the std.
C17_NonNumericContributesNothing ==
    baselines_out.status # "pending" =>
        /\ baselines_out.status = "ok"
        /\ \A m \in BaselineMetrics :
               baselines_out.out[m] =
                   ComputeMetricBaselines(SelectSeq(summaries, LAMBDA s : s[m].kind = "num"),
                                          BaselineMetrics, min_count, exclude_summary)[m]

C17_Witness ==
    /\ baselines_out.status = "ok"
    /\ Len(summaries) = 3
    /\ min_count = 2
    /\ \E i \in 1..3 : summaries[i].sleepScore = BadVal
    /\ \E i \in 1..3 : summaries[i].restingHeartRate = NoneVal
    /\ baselines_out.out["sleepScore"] = <<2000, 1000>>
    /\ baselines_out.out["restingHeartRate"] = <<4000, 1000>>

\* C18: with at least min_count kept numeric values v1..vN the baseline is
\* the population mean sum(v)/N and the population standard deviation, the
\* square root of sum((v - mean)^2)/N (both to the hundredth); the history
\* 10, 20, 30, 40, 50 with nothing excluded gives mean 30 and std 14.14.
C18_PopulationMeanStd ==
    baselines_out.status = "ok" =>
        /\ \A m \in BaselineMetrics :
               LET v == KeptNumeric(m)
                   n == Len(v)
                   mu == baselines_out.out[m][1]
                   sd == baselines_out.out[m][2]
                   spread == n * SumSquares(v) - SumSeq(v) * SumSeq(v)
               IN  (n >= min_count /\ n > 0) =>
                     /\ mu * n <= SumSeq(v) * Scale
                     /\ SumSeq(v) * Scale < (mu + 1) * n
                     /\ sd * sd * n * n <= spread * Scale * Scale
                     /\ spread * Scale * Scale < (sd + 1) * (sd + 1) * n * n
        /\ summaries = ScenarioHistory(5) =>
               baselines_out.out["sleepScore"] = <<3000, 1414>>

C18_Witness ==
    /\ baselines_out.status = "ok"
    /\ summaries = ScenarioHistory(5)
    /\ min_count = DefaultMinCount
    /\ baselines_out.out["sleepScore"] = <<3000, 1414>>

----------------------------------------------------------------------------
(* Claims about the card colour *)

Saturated(x, y) ==
    (color_in[x] >= SigmaCap /\ color_in[y] = SigmaCap) =>
        /\ color_out[x].idx = color_out[y].idx
        /\ color_out[x].alpha = color_out[y].alpha

\* C19: for one score (one ramp side) and two sigmas, the smaller sigma never
\* gets the larger ramp index; every index lies in 0 .. ramp length - 1; and
\* a sigma at or above the cap of 2.5 gets the index and the alpha of a sigma
\* of exactly 2.5.
C19_IndexMonotoneAndCapped ==
    color_out.done =>
        /\ color_out.a.ramp = color_out.b.ramp
        /\ color_in.a <= color_in.b => color_out.a.idx <= color_out.b.idx
        /\ color_out.a.idx \in 0..(RampLength - 1)
        /\ color_out.b.idx \in 0..(RampLength - 1)
        /\ Saturated("a", "b")
        /\ Saturated("b", "a")

C19_Witness ==
    /\ color_out.done
    /\ color_in.a = SigmaCap
    /\ color_in.b = SigmaCap + 500
    /\ color_out.a.idx = RampLength - 1
    /\ color_out.b.idx = RampLength - 1
    /\ color_out.b.alpha = 9500

AtMean ==
    /\ CurrentIsNumeric
    /\ card_baseline.present
    /\ card_current.v * Scale = card_baseline.mu

\* C20: a card whose current value equals its baseline mean has z-score 0,
\* ramp index 0 and alpha 0.35, whether the metric is higher-is-better or
\* lower-is-better.
C20_AtMeanIsNeutral ==
    (card_out.status = "drawn" /\ AtMean) =>
        /\ card_out.z = 0
        /\ card_out.idx = 0
        /\ card_out.alpha = 3500

C20_Witness ==
    /\ card_out.status = "drawn"
    /\ AtMean
    /\ ~HigherIsBetter[card_metric]
    /\ card_current.v = 30
    /\ card_baseline.sd = 1414
    /\ card_out.idx = 0
    /\ card_out.alpha = 3500

----------------------------------------------------------------------------
(* Claims about the scenario of a resting heart rate of 50 *)

ScenarioCard ==
    /\ card_out.status = "drawn"
    /\ ~HigherIsBetter[card_metric]
    /\ card_current = Num(50)
    /\ card_baseline = [present |-> TRUE, mu |-> 3000, sd |-> 1414]

ScenarioScores ==
    /\ card_out.z \in 1410..1419
    /\ card_out.score = -card_out.z
    /\ card_out.ramp = "NEG"

\* C21 as stated: current 50 against (30.0, 14.14) on a lower-is-better
\* metric gives z about 1.41, goodness about -1.41, the NEG ramp, and a ramp
\* index in the upper half of the six entries (3, 4 or 5).
C21_ScenarioNearHighEnd ==
    ScenarioCard =>
        /\ ScenarioScores
        /\ card_out.idx >= RampLength \div 2

\* C21 amended: the same card gives z about 1.41, goodness about -1.41, the
\* NEG ramp, and ramp index 2 of 0..5, in the lower half of the ramp.
C21_ScenarioIndexTwo ==
    ScenarioCard =>
        /\ ScenarioScores
        /\ card_out.idx = 2

C21_Witness ==
    /\ ScenarioCard
    /\ card_metric = "restingHeartRate"
    /\ card_out.z = 1414
    /\ card_out.idx = 2

----------------------------------------------------------------------------
(* Claims about the Telegram listener *)

\* The update handled last carries a message of the configured chat.
FromConfiguredChat ==
    /\ polled.upd.has_message
    /\ \/ polled.upd.chat = IntChat(100)
       \/ polled.upd.chat = StrChat("100")

NewEntries == SubSeq(journal, polled.journal_before + 1, Len(journal))

\* C22: every SleepJournal entry carries the configured chat id; handling
\* an update whose message is from another chat, or has no chat id, adds no
\* entry and sends no confirmation; handling one from the configured chat
\* adds at most one entry, for that update, and at most one confirmation,
\* sent after the entry was written.
C22_OnlyConfiguredChat ==
    /\ \A k \in 1..Len(journal) :
           journal[k].chat_id = listener_env.CHAT_ID /\ journal[k].chat_id = "100"
    /\ ~FromConfiguredChat =>
           /\ NewEntries = <<>>
           /\ confirmations = polled.confirmations_before
    /\ Len(NewEntries) <= 1
    /\ \A k \in 1..Len(NewEntries) : NewEntries[k].update_id = polled.upd.update_id
    /\ confirmations - polled.confirmations_before <= Len(NewEntries)

C22_Witness ==
    /\ polled.n = 2
    /\ polled.upd.has_message
    /\ polled.upd.chat = IntChat(200)
    /\ Len(journal) = 1
    /\ journal[1].update_id < polled.upd.update_id
    /\ NewEntries = <<>>
    /\ confirmations = 1

----------------------------------------------------------------------------
(* Claims about sanitize_text *)

Normalised(t, max_len) ==
    /\ Len(t) <= max_len
    /\ \A i \in 1..Len(t) : ~IsControl(t[i]) /\ (IsSpace(t[i]) => t[i] = " ")
    /\ \A i \in 1..(Len(t) - 1) : ~(IsSpace(t[i]) /\ IsSpace(t[i + 1]))
    /\ t # <<>> => ~IsSpace(t[1]) /\ ~IsSpace(t[Len(t)])

\* C23: what sanitize_text returns is at most max_len long, has no control
\* character, no whitespace other than single spaces between other
\* characters, no leading or trailing whitespace, and sanitize_text returns
\* it unchanged.
C23_SanitizeNormalises ==
    sanitize_out.done =>
        /\ Normalised(sanitize_out.once, sanitize_in.max_len)
        /\ sanitize_out.twice = sanitize_out.once

----------------------------------------------------------------------------
(* Claims about the export *)

\* C24: when stream_points has terminated it has yielded every stored
\* point exactly once, in ascending time order; what it has yielded so far
\* is always in ascending time order and without repetition.
C24_ExportLossless ==
    /\ \A i, j \in 1..Len(yielded) :
           i < j => yielded[i].time <= yielded[j].time /\ yielded[i] # yielded[j]
    /\ export_pc = "done" => yielded = stored

----------------------------------------------------------------------------
(* Claims about fixed_message.main and the scheduler loop *)

\* The scheduler calls fixed_message.main while InfluxDB, reachable, holds
\* no SleepSummary record.
MainCalledWithoutData ==
    /\ pc = "loop"
    /\ runs' = runs + 1
    /\ target_spec = TargetSpec("fixed_message", "main")
    /\ latest = NoKey
    /\ last_call'.result.outcome # "ConnectionError"

\* C25: fixed_message.main, called when InfluxDB returns no SleepSummary
\* record, ends with SystemExit, sends no message and leaves last_sent_key
\* as it was.
C25_NoDataIsSystemExit ==
    [][MainCalledWithoutData =>
          /\ last_call'.result.outcome = "SystemExit"
          /\ ~last_call'.result.send_attempted
          /\ text_last_sent_key' = text_last_sent_key]_vars

\* The step is one pass of the scheduler loop: the target was called.
TargetRan == runs' = runs + 1

OrdinaryException(outcome) == ~IsReturn(outcome) /\ outcome # "SystemExit"

\* C26: a pass of the loop starts only while no stop signal has arrived; an
\* ordinary exception of the target is logged and, unless --once was
\* given, the loop sleeps, wakes into the loop again and can run the target
\* again; the loop ends only with return code 1 after a SystemExit of the
\* target, with return code 0 after exactly one run under --once, or with
\* return code 0 and no further run after a stop signal.
C26_OnlySystemExitOnceOrStopEnd ==
    [][/\ TargetRan =>
              /\ ~stop_event
              /\ OrdinaryException(last_call'.result.outcome) =>
                     /\ last_log' = "ERROR"
                     /\ IF cfg.once THEN pc' = "exited" /\ rc' = 0 /\ runs' = 1
                        ELSE pc' = "sleeping" /\ rc' = rc
              /\ last_call'.result.outcome = "SystemExit" => pc' = "exited" /\ rc' = 1
       /\ pc = "sleeping" => pc' \in {"sleeping", "loop"}
       /\ pc = "loop" /\ ~stop_event /\ runs < MaxRuns => ENABLED SchedulerIterate
       /\ pc = "loop" /\ pc' = "exited" =>
              \/ TargetRan /\ last_call'.result.outcome = "SystemExit" /\ rc' = 1
              \/ TargetRan /\ cfg.once /\ runs' = 1 /\ rc' = 0
              \/ ~TargetRan /\ stop_event /\ rc' = 0 /\ runs' = runs
       /\ pc = "exited" => pc' = "exited" /\ runs' = runs]_vars

\* An ordinary exception was logged and the loop waits for its next run.
C26_Witness ==
    /\ ~cfg.once
    /\ ~stop_event
    /\ pc = "sleeping"
    /\ runs = 1
    /\ last_log = "ERROR"
    /\ OrdinaryException(last_call.result.outcome)

\* The send step of run_once, taken by itself, and the line the scheduler
\* logs for what it returns: SENT only when the photo was delivered.
SendStepLogsSentOnlyWhenDelivered ==
    \A send_telegram \in BOOLEAN, tg \in TelegramAnswers,
       k \in SleepKeys, l \in {NoKey} \cup SleepKeys :
        LET r == SendStep(send_telegram, tg, k, l)
        IN  RunLog(r.outcome) = "SENT" => r.sent_ok

====
